---- MODULE Spec2Model ----
(***************************************************************************)
(* The polls application: Question and Choice (polls/models.py), the test  *)
(* helper create_question and the index listing the tests drive            *)
(* (polls/tests.py), and the admin inline that edits stored Choice rows    *)
(* (polls/admin.py).                                                       *)
(*                                                                         *)
(* Time is counted in ticks; one day is TicksPerDay ticks. An optional     *)
(* value (Python's None) is a sequence of length 0 or 1.                   *)
(***************************************************************************)
EXTENDS Integers, Sequences, FiniteSets, TLC

\* ------------------------------------------------------------------ bounds
TicksPerDay == 3
MaxNow == 3
MaxDays == 2
MaxQuestions == 3
MaxChoices == 2
MaxInstances == 2
MaxVotes == 2

\* ------------------------------------------------------------------ values
None == <<>>
Some(v) == <<v>>

\* datetime.timedelta(days=d), in ticks
timedelta_days(d) == d * TicksPerDay

\* a day count that rounds towards zero instead
days_truncating(delta) ==
    IF delta >= 0 THEN delta \div TicksPerDay ELSE 0 - ((0 - delta) \div TicksPerDay)

\* timedelta.days: the whole days of a difference, rounded towards minus
\* infinity (timedelta normalises to days + a non-negative remainder)
days(delta) == delta \div TicksPerDay

\* the offsets from the clock the tests construct a pub_date with
Offsets == (0 - (timedelta_days(MaxDays) + 1)) .. (timedelta_days(MaxDays) + 1)

VARIABLES
    now,      \* the clock timezone.now() reads
    q,        \* the Question object at hand, optional
    ret,      \* what the call that has just returned gave
    qrows,    \* the stored Question rows, by primary key
    resp,     \* the response of the request that has just been served
    crows,    \* the stored Choice rows, by primary key
    inst,     \* the Choice objects in memory
    expected, \* per Choice row: the votes it holds if every increment counts
    done      \* the Choice call that has just returned, optional

qvars == <<now, q, ret, qrows, resp>>
cvars == <<crows, inst, expected, done>>
vars == <<now, q, ret, qrows, resp, crows, inst, expected, done>>

\* the Choice objects the race on a row is run with
Instances == 1 .. MaxInstances

\* the Choice object the calls are run on one at a time
Objects == {1}

\* an object variable that holds no Choice
NoChoice == [pc |-> "absent", pk |-> 0, question |-> 0, choice_text |-> "",
             votes |-> 0, before |-> 0]

NoCall == [op |-> "", raised |-> "", value |-> None]

\* ---------------------------------------------------------------- Question
\* a window that leaves out pub_date = now
was_published_recently_before_now(pub_date, t) ==
    /\ t - timedelta_days(1) <= pub_date
    /\ pub_date < t

\* Question.was_published_recently, on a set pub_date, with the clock value t
\* read inside the call
was_published_recently(pub_date, t) ==
    /\ t - timedelta_days(1) <= pub_date
    /\ pub_date <= t

\* a comparison that leaves out pub_date = now
is_published_strictly(pub_date, t) == pub_date < t

\* Question.is_published, on a set pub_date
is_published(pub_date, t) == pub_date <= t

\* Question.days_since_publication, on an optional pub_date
days_since_publication(pub_date, t) ==
    IF pub_date # None THEN Some(days(t - pub_date[1])) ELSE None

\* the result of a call on the optional pub_date of the object: comparing
\* None with a datetime raises TypeError
CallBool(op, pub_date, value) ==
    IF pub_date = None
    THEN [op |-> op, raised |-> "TypeError", value |-> None]
    ELSE [op |-> op, raised |-> "", value |-> Some(value)]

\* timezone.now() advances
Tick ==
    /\ now < MaxNow
    /\ now' = now + 1
    /\ ret' = NoCall
    /\ resp' = None
    /\ UNCHANGED <<q, qrows>>
    /\ UNCHANGED cvars

\* Question(pub_date=timezone.now() + delta): the constructor validates nothing
NewQuestion ==
    \E delta \in Offsets :
        /\ q' = Some([pub_date |-> Some(now + delta), made |-> now, pk |-> 0])
        /\ ret' = NoCall
        /\ resp' = None
        /\ UNCHANGED <<now, qrows>>
        /\ UNCHANGED cvars

\* Question(pub_date=None)
NewQuestionNoDate ==
    /\ q' = Some([pub_date |-> None, made |-> now, pk |-> 0])
    /\ ret' = NoCall
    /\ resp' = None
    /\ UNCHANGED <<now, qrows>>
    /\ UNCHANGED cvars

\* Question(pub_date=timezone.now() + datetime.timedelta(days=d))
NewQuestionDays ==
    \E d \in (0 - MaxDays) .. MaxDays :
        /\ q' = Some([pub_date |-> Some(now + timedelta_days(d)), made |-> now,
                      pk |-> 0])
        /\ ret' = NoCall
        /\ resp' = None
        /\ UNCHANGED <<now, qrows>>
        /\ UNCHANGED cvars

CallWasPublishedRecently ==
    /\ q # None
    /\ ret' = CallBool("was_published_recently", q[1].pub_date,
                       IF q[1].pub_date = None THEN FALSE
                       ELSE was_published_recently(q[1].pub_date[1], now))
    /\ resp' = None
    /\ UNCHANGED <<now, q, qrows>>
    /\ UNCHANGED cvars

CallIsPublished ==
    /\ q # None
    /\ ret' = CallBool("is_published", q[1].pub_date,
                       IF q[1].pub_date = None THEN FALSE
                       ELSE is_published(q[1].pub_date[1], now))
    /\ resp' = None
    /\ UNCHANGED <<now, q, qrows>>
    /\ UNCHANGED cvars

CallDaysSincePublication ==
    /\ q # None
    /\ ret' = [op |-> "days_since_publication", raised |-> "",
               value |-> days_since_publication(q[1].pub_date, now)]
    /\ resp' = None
    /\ UNCHANGED <<now, q, qrows>>
    /\ UNCHANGED cvars

InitQuestion ==
    /\ now = 0
    /\ q = None
    /\ ret = NoCall
    /\ qrows = <<>>
    /\ resp = None
    /\ crows = <<>>
    /\ inst = [i \in Instances |-> NoChoice]
    /\ expected = [on |-> FALSE, of |-> <<>>]
    /\ done = None

NextQuestion ==
    \/ Tick
    \/ NewQuestion
    \/ NewQuestionNoDate
    \/ CallWasPublishedRecently
    \/ CallIsPublished
    \/ CallDaysSincePublication

SpecQuestion == InitQuestion /\ [][NextQuestion]_vars

\* -------------------------------------------------------------- the store
\* pub_date = models.DateTimeField("date published"): the column is NOT NULL,
\* a row is written only with a set pub_date
column_accepts_any(pub_date) == TRUE

column_accepts(pub_date) == pub_date # None

\* Model.save() of the Question object: INSERT when it has no primary key yet,
\* UPDATE of its row otherwise; IntegrityError when the column refuses the value
Save ==
    /\ q # None
    /\ resp' = None
    /\ UNCHANGED now
    /\ UNCHANGED cvars
    /\ IF ~column_accepts(q[1].pub_date)
       THEN /\ ret' = [op |-> "save", raised |-> "IntegrityError", value |-> None]
            /\ UNCHANGED <<q, qrows>>
       ELSE IF q[1].pk = 0
       THEN /\ Len(qrows) < MaxQuestions
            /\ qrows' = Append(qrows, [pub_date |-> q[1].pub_date])
            /\ q' = Some([q[1] EXCEPT !.pk = Len(qrows) + 1])
            /\ ret' = [op |-> "save", raised |-> "", value |-> None]
       ELSE /\ qrows' = [qrows EXCEPT ![q[1].pk] = [pub_date |-> q[1].pub_date]]
            /\ ret' = [op |-> "save", raised |-> "", value |-> None]
            /\ UNCHANGED q

\* create_question(question_text, days): the clock plus timedelta(days=days),
\* then Question.objects.create
create_question ==
    \E d \in (0 - MaxDays) .. MaxDays :
        /\ Len(qrows) < MaxQuestions
        /\ LET time == now + timedelta_days(d) IN
             /\ qrows' = Append(qrows, [pub_date |-> Some(time)])
             /\ q' = Some([pub_date |-> Some(time), made |-> now,
                           pk |-> Len(qrows) + 1])
        /\ ret' = NoCall
        /\ resp' = None
        /\ UNCHANGED now
        /\ UNCHANGED cvars

\* ------------------------------------------------------- the index listing
\* the stored Questions the listing shows at clock value t
listed_ids(rows, t) ==
    {i \in DOMAIN rows : rows[i].pub_date # None /\ rows[i].pub_date[1] <= t}

\* a listing in the opposite order
index_listings_oldest_first(rows, t) ==
    LET ids == listed_ids(rows, t)
        n == Cardinality(ids)
    IN {L \in [1 .. n -> ids] :
          /\ \A i, j \in 1 .. n : i # j => L[i] # L[j]
          /\ \A i, j \in 1 .. n :
                i < j => rows[L[i]].pub_date[1] <= rows[L[j]].pub_date[1]}

\* the orders the listing may come in: most recent pub_date first, rows of
\* equal pub_date in either order
index_listings(rows, t) ==
    LET ids == listed_ids(rows, t)
        n == Cardinality(ids)
    IN {L \in [1 .. n -> ids] :
          /\ \A i, j \in 1 .. n : i # j => L[i] # L[j]
          /\ \A i, j \in 1 .. n :
                i < j => rows[L[i]].pub_date[1] >= rows[L[j]].pub_date[1]}

\* GET polls:index
IndexView ==
    \E L \in index_listings(qrows, now) :
        /\ resp' = Some([status_code |-> 200,
                         latest_question_list |-> L,
                         no_polls_message |-> (L = <<>>)])
        /\ ret' = NoCall
        /\ UNCHANGED <<now, q, qrows>>
        /\ UNCHANGED cvars

NextSave ==
    \/ NewQuestionDays
    \/ NewQuestionNoDate
    \/ Save
    \/ create_question

SpecSave == InitQuestion /\ [][NextSave]_vars

NextIndex ==
    \/ Tick
    \/ create_question
    \/ IndexView

SpecIndex == InitQuestion /\ [][NextIndex]_vars

\* ------------------------------------------------------------------ Choice
\* votes = models.IntegerField(default=0)
votes_default == 0

\* the votes a constructor call or the admin form may give: IntegerField takes
\* any integer, negative ones too
VoteInputs == {0 - 1, votes_default, MaxVotes}

Texts == {"A", "B"}

\* an increment that counts twice
votes_incremented_twice(v) == v + 2

\* self.votes += 1
votes_incremented(v) == v + 1

\* a reset that leaves the count as it is
votes_not_reset(v) == v

\* self.votes = 0
votes_reset(v) == 0

\* the columns Model.save() writes: all of them
choice_row(c) ==
    [question |-> c.question, choice_text |-> c.choice_text, votes |-> c.votes]

\* the primary key of the object once saved
saved_pk(rows, c) == IF c.pk = 0 THEN Len(rows) + 1 ELSE c.pk

\* Model.save() of a Choice object: INSERT without a primary key, UPDATE of
\* the whole row with one
save_choice(rows, c) ==
    IF c.pk = 0 THEN Append(rows, choice_row(c))
    ELSE [rows EXCEPT ![c.pk] = choice_row(c)]

\* what a row is expected to hold after a write that is no increment: the
\* votes written (kept only where the tally is on)
expected_restarted(exp, c) ==
    IF ~exp.on THEN exp
    ELSE IF c.pk = 0 THEN [exp EXCEPT !.of = Append(@, c.votes)]
    ELSE [exp EXCEPT !.of[c.pk] = c.votes]

\* what a row is expected to hold after an increment_votes() call on it has
\* returned: one more than before (the votes written, when the call made the row)
expected_counted(exp, c) ==
    IF ~exp.on THEN exp
    ELSE IF c.pk = 0 THEN [exp EXCEPT !.of = Append(@, c.votes)]
    ELSE [exp EXCEPT !.of[c.pk] = @ + 1]

CanSave(c) == c.pk = 0 => Len(crows) < MaxChoices

\* Choice(question=self.question, choice_text=t) and
\* Choice(question=self.question, choice_text=t, votes=v)
NewChoice(among) ==
    \E i \in among, t \in Texts, v \in VoteInputs :
        /\ inst[i].pc \in {"absent", "idle"}
        /\ q # None
        /\ q[1].pk # 0
        /\ inst' = [inst EXCEPT ![i] =
                      [pc |-> "idle", pk |-> 0, question |-> q[1].pk,
                       choice_text |-> t, votes |-> v, before |-> 0]]
        /\ done' = None
        /\ UNCHANGED <<crows, expected>>
        /\ UNCHANGED qvars

\* choice.save()
SaveChoice(among) ==
    \E i \in among :
        /\ inst[i].pc = "idle"
        /\ CanSave(inst[i])
        /\ crows' = save_choice(crows, inst[i])
        /\ expected' = expected_restarted(expected, inst[i])
        /\ inst' = [inst EXCEPT ![i].pk = saved_pk(crows, inst[i])]
        /\ done' = None
        /\ UNCHANGED qvars

\* a Choice object read from its stored row
GetChoice(among) ==
    \E i \in among, r \in DOMAIN crows :
        /\ inst[i].pc \in {"absent", "idle"}
        /\ inst' = [inst EXCEPT ![i] =
                      [pc |-> "idle", pk |-> r, question |-> crows[r].question,
                       choice_text |-> crows[r].choice_text,
                       votes |-> crows[r].votes, before |-> 0]]
        /\ done' = None
        /\ UNCHANGED <<crows, expected>>
        /\ UNCHANGED qvars

\* increment_votes(), its first statement
IncrementVotesAdd(among) ==
    \E i \in among :
        /\ inst[i].pc = "idle"
        /\ inst[i].votes < MaxVotes
        /\ inst' = [inst EXCEPT ![i].pc = "increment_votes",
                                ![i].before = inst[i].votes,
                                ![i].votes = votes_incremented(inst[i].votes)]
        /\ done' = None
        /\ UNCHANGED <<crows, expected>>
        /\ UNCHANGED qvars

\* increment_votes(), its second statement, and the return
IncrementVotesSave(among) ==
    \E i \in among :
        /\ inst[i].pc = "increment_votes"
        /\ CanSave(inst[i])
        /\ crows' = save_choice(crows, inst[i])
        /\ expected' = expected_counted(expected, inst[i])
        /\ inst' = [inst EXCEPT ![i].pc = "idle",
                                ![i].before = 0,
                                ![i].pk = saved_pk(crows, inst[i])]
        /\ done' = Some([op |-> "increment_votes", inst |-> i,
                         before |-> inst[i].before])
        /\ UNCHANGED qvars

\* reset_votes(): both statements and the return, in one step (what it writes
\* depends on nothing another writer can change in between)
ResetVotes(among) ==
    \E i \in among :
        /\ inst[i].pc = "idle"
        /\ CanSave(inst[i])
        /\ LET c == [inst[i] EXCEPT !.votes = votes_reset(inst[i].votes)] IN
             /\ crows' = save_choice(crows, c)
             /\ expected' = expected_restarted(expected, c)
             /\ inst' = [inst EXCEPT ![i] = [c EXCEPT !.pk = saved_pk(crows, c)]]
        /\ done' = Some([op |-> "reset_votes", inst |-> i,
                         before |-> inst[i].votes])
        /\ UNCHANGED qvars

\* the Choices inline of the Question admin page: a stored row is rewritten
\* with what the form holds
AdminEditChoice ==
    \E r \in DOMAIN crows, t \in Texts, v \in VoteInputs :
        /\ crows' = [crows EXCEPT ![r] = [question |-> crows[r].question,
                                          choice_text |-> t, votes |-> v]]
        /\ expected' = expected_restarted(expected, [pk |-> r, votes |-> v])
        /\ done' = None
        /\ UNCHANGED inst
        /\ UNCHANGED qvars

\* ChoiceModelTests.setUp: one stored Question, published now
InitChoice ==
    /\ now = 0
    /\ q = Some([pub_date |-> Some(now), made |-> now, pk |-> 1])
    /\ qrows = <<[pub_date |-> Some(now)]>>
    /\ ret = NoCall
    /\ resp = None
    /\ crows = <<>>
    /\ inst = [i \in Instances |-> NoChoice]
    /\ expected = [on |-> FALSE, of |-> <<>>]
    /\ done = None

NextChoice ==
    \/ NewChoice(Objects)
    \/ SaveChoice(Objects)
    \/ GetChoice(Objects)
    \/ IncrementVotesAdd(Objects)
    \/ IncrementVotesSave(Objects)
    \/ ResetVotes(Objects)
    \/ AdminEditChoice

SpecChoice == InitChoice /\ [][NextChoice]_vars

\* the same store, with the tally of increment_votes() calls kept
InitVotes ==
    /\ now = 0
    /\ q = Some([pub_date |-> Some(now), made |-> now, pk |-> 1])
    /\ qrows = <<[pub_date |-> Some(now)]>>
    /\ ret = NoCall
    /\ resp = None
    /\ crows = <<>>
    /\ inst = [i \in Instances |-> NoChoice]
    /\ expected = [on |-> TRUE, of |-> <<>>]
    /\ done = None

NextVotes ==
    \/ NewChoice(Instances)
    \/ SaveChoice(Instances)
    \/ GetChoice(Instances)
    \/ IncrementVotesAdd(Instances)
    \/ IncrementVotesSave(Instances)

SpecVotes == InitVotes /\ [][NextVotes]_vars

\* ------------------------------------------------------------------ claims
\* the pub_date of the Question object a call has just returned for
PubDate == q[1].pub_date[1]

Returned(op) == q # None /\ ret.op = op /\ q[1].pub_date # None

C2_ExactlyOneDayOldIsNotRecent ==
    (Returned("was_published_recently")
        /\ PubDate = q[1].made - timedelta_days(1))
      => ret.value = Some(FALSE)

\* C3: on a set pub_date, is_published() returns True exactly when pub_date is
\* not after the clock value read in the call; one day ahead gives False, one
\* day behind gives True.
C3_PublishedIffNotFuture ==
    Returned("is_published") =>
        /\ ret.raised = ""
        /\ ret.value \in {Some(TRUE), Some(FALSE)}
        /\ (ret.value = Some(TRUE)) <=> ~(PubDate > now)
        /\ PubDate = now + timedelta_days(1) => ret.value = Some(FALSE)
        /\ PubDate = now - timedelta_days(1) => ret.value = Some(TRUE)

\* C3 witness: a Question published at the clock value the call reads
C3_PublishedAtNow ==
    /\ Returned("is_published")
    /\ PubDate = now
    /\ ret.value = Some(TRUE)

\* C4: days_since_publication() returns the whole days from pub_date to the
\* clock value read in the call (d for a Question published d whole days
\* ago), and None when the Question has no pub_date.
C4_DayDelta ==
    (q # None /\ ret.op = "days_since_publication") =>
        /\ ret.raised = ""
        /\ q[1].pub_date = None => ret.value = None
        /\ q[1].pub_date # None =>
             /\ Len(ret.value) = 1
             /\ ret.value[1] * TicksPerDay <= now - PubDate
             /\ now - PubDate < (ret.value[1] + 1) * TicksPerDay
             /\ \A d \in 0 .. MaxDays :
                   PubDate = now - timedelta_days(d) => ret.value = Some(d)

\* C4 witness: a Question published MaxDays whole days before the clock value
\* the call reads, after the clock has moved on since it was made
C4_PublishedWholeDaysAgo ==
    /\ Returned("days_since_publication")
    /\ now > q[1].made
    /\ PubDate = now - timedelta_days(MaxDays)
    /\ ret.value = Some(MaxDays)

C8_IndexListing ==
    resp # None =>
        LET L == resp[1].latest_question_list
            past == {i \in DOMAIN qrows : ~(qrows[i].pub_date[1] > now)}
        IN /\ resp[1].status_code = 200
           /\ \A k \in DOMAIN L : L[k] \in DOMAIN qrows
           /\ \A k \in DOMAIN L : qrows[L[k]].pub_date[1] <= now
           /\ {L[k] : k \in DOMAIN L} = past
           /\ Len(L) = Cardinality(past)
           /\ \A k \in 1 .. (Len(L) - 1) :
                 qrows[L[k]].pub_date[1] >= qrows[L[k + 1]].pub_date[1]
           /\ resp[1].no_polls_message <=> past = {}
           /\ past = {} => L = <<>>

\* C8 witness: two past Questions listed newest first, the older one stored
\* last, and a future Question left out
C8_TwoPastOneFuture ==
    /\ resp # None
    /\ Len(qrows) = 3
    /\ resp[1].latest_question_list = <<1, 3>>
    /\ qrows[1].pub_date[1] > qrows[3].pub_date[1]
    /\ qrows[2].pub_date[1] > now

\* the stored row of the object i
RowOf(i) == crows[inst[i].pk]

JustReturned(op, i) == done # None /\ done[1].op = op /\ done[1].inst = i

\* what the return of increment_votes() on object i leaves, against the state
\* before it and the votes the object had when the call began
C6_Return(i) ==
    (inst[i].pc = "increment_votes" /\ inst'[i].pc = "idle") =>
        LET pk == inst'[i].pk IN
        /\ inst'[i].votes = inst[i].before + 1
        /\ pk \in DOMAIN crows'
        /\ crows'[pk].votes = inst[i].before + 1
        /\ inst[i].pk # 0 => pk = inst[i].pk
        /\ inst'[i].choice_text = inst[i].choice_text
        /\ inst'[i].question = inst[i].question
        /\ crows'[pk].choice_text = inst[i].choice_text
        /\ crows'[pk].question = inst[i].question
        /\ DOMAIN crows' = DOMAIN crows \cup {pk}
        /\ \A r \in DOMAIN crows : r # pk => crows'[r] = crows[r]
        /\ \A j \in Instances : j # i => inst'[j] = inst[j]

\* what the first statement of increment_votes() on object i leaves
C6_Add(i) ==
    (inst[i].pc = "idle" /\ inst'[i].pc = "increment_votes") =>
        /\ inst'[i].before = inst[i].votes
        /\ inst'[i].votes = inst[i].votes + 1
        /\ inst'[i].pk = inst[i].pk
        /\ inst'[i].choice_text = inst[i].choice_text
        /\ inst'[i].question = inst[i].question
        /\ crows' = crows
        /\ \A j \in Instances : j # i => inst'[j] = inst[j]

\* C6: when increment_votes() returns, the votes of the object and of its
\* stored row are the object's votes before the call plus 1; the object's
\* other fields are as before and its row holds them; no other row and no
\* other object has changed.
C6_IncrementByOne == [][\A i \in Instances : C6_Add(i) /\ C6_Return(i)]_vars

\* C6 witness: increment_votes() has returned on a saved Choice that had the
\* default 0 votes, beside another stored Choice
C6_FromDefaultToOne ==
    \E i \in Instances :
        /\ JustReturned("increment_votes", i)
        /\ done[1].before = votes_default
        /\ inst[i].votes = 1
        /\ RowOf(i).votes = 1
        /\ Len(crows) = 2

\* C7: when reset_votes() returns, the votes of the object and of its stored
\* row are 0, whatever they were; a second call right after the first leaves
\* the objects and the rows as they are.
C7_ResetToZero ==
    [][\A i \in Instances :
          (done' # None /\ done'[1].op = "reset_votes" /\ done'[1].inst = i) =>
              /\ inst'[i].votes = 0
              /\ inst'[i].pk \in DOMAIN crows'
              /\ crows'[inst'[i].pk].votes = 0
              /\ crows'[inst'[i].pk].choice_text = inst[i].choice_text
              /\ \A r \in DOMAIN crows : r # inst'[i].pk => crows'[r] = crows[r]
              /\ JustReturned("reset_votes", i) =>
                    (crows' = crows /\ inst' = inst)]_vars

\* C7 witness: reset_votes() has returned on a Choice that had votes
C7_ResetFromVotes ==
    \E i \in Instances :
        /\ JustReturned("reset_votes", i)
        /\ done[1].before = MaxVotes
        /\ inst[i].votes = 0
        /\ RowOf(i).votes = 0

\* C9: the votes of every Choice, in memory and stored, are never negative.
C9_VotesNeverNegative ==
    /\ \A i \in Instances : inst[i].pc # "absent" => inst[i].votes >= 0
    /\ \A r \in DOMAIN crows : crows[r].votes >= 0

\* C10: once every increment_votes() call on a row has returned, the row
\* holds the votes it held before the first of them plus their number.
C10_NoIncrementLost ==
    \A r \in DOMAIN crows :
        (\A i \in Instances :
            ~(inst[i].pk = r /\ inst[i].pc = "increment_votes"))
          => crows[r].votes = expected.of[r]

====
